---- MODULE Spec2Model ----
(***************************************************************************)
(* Model of the movie-wiki retrieval pipeline of kuzudb/graph-rag:         *)
(*   src/src/03_movie_wiki/graph_rag.py   GraphRAG  (schema, query, run)   *)
(*   src/src/03_movie_wiki/vector_rag.py  VectorRAG (embed, query, run)    *)
(*   src/src/03_movie_wiki/hybrid_rag.py  HybridRAG (run)                  *)
(*                                                                         *)
(* Three specifications share the variables below:                         *)
(*   SpecCollector  GraphRAG.query applied to bounded row streams          *)
(*   SpecSchema     GraphRAG.get_schema against a graph schema             *)
(*   Spec           the three run() pipelines, one step per call made      *)
(***************************************************************************)
EXTENDS Integers, Sequences, FiniteSets, TLC

VARIABLES
    rows,          \* collector: the row stream conn.execute(cypher) returns
    outcome,       \* collector: what GraphRAG.query returned or raised
    nodeTables,    \* schema: node tables of the graph store, in catalog order
    relTables,     \* schema: relationship tables, in catalog order
    schemaCalls,   \* schema: one record per get_schema call (schema read, text)
    mode,          \* run: "idle", "hybrid", "graph" or "vector"
    pc,            \* run: position inside run()
    question,      \* run: the question passed to run()
    vector_docs,   \* run: local vector_docs of HybridRAG.run / context of VectorRAG.run
    cypher,        \* run: local cypher (the Translator's last output)
    graph_docs,    \* run: local graph_docs / context (the list inside the dict)
    docs,          \* run: local docs handed to the reranker
    context,       \* run: what the synthesis prompt embeds
    failure,       \* run: the exception that ended the run, "" if none
    graphStore,    \* contents of the Kuzu database
    vectorStore,   \* contents of the LanceDB table (texts by similarity)
    executed,      \* run: every query string handed to conn.execute, in order
    calls,         \* run: every backend call made, in order
    printed,       \* run: what GraphRAG.run printed
    schema,        \* run: local schema of generate_cypher
    inRetrieve,    \* run: control is inside the body of GraphRAG.retrieve
    env,           \* run: which backends answer during this run
    runs           \* number of runs started

vars == <<rows, outcome, nodeTables, relTables, schemaCalls,
          mode, pc, question, vector_docs, cypher, graph_docs, docs, context,
          failure, graphStore, vectorStore, executed, calls, printed, schema,
          inRetrieve, env, runs>>

collectorVars == <<rows, outcome>>
schemaVars == <<nodeTables, relTables, schemaCalls>>
runVars == <<mode, pc, question, vector_docs, cypher, graph_docs, docs, context,
             failure, graphStore, vectorStore, executed, calls, printed, schema,
             inRetrieve, env, runs>>

----------------------------------------------------------------------------
(* Bounds of the model. *)

MaxRows == 3
MaxRowLen == 2
MaxSchemaCalls == 2
MaxNodeTables == 2
MaxRelTables == 1
MaxProps == 2
MaxRuns == 2

----------------------------------------------------------------------------
(* Values a Kuzu row can hold.  Every value is a record of one shape:      *)
(*   k  the Python type ("int", "str", "list", "tuple")                    *)
(*   n  the number or the string's identity (0 for composites)             *)
(*   q  for an int beyond the hash modulus, see Int64V (0 otherwise)       *)
(*   e  the elements of a composite (<<>> for scalars)                     *)
(* Python == on these values is equality of the records.                   *)

\* the hash modulus of CPython is 2^ModulusBits - 1
ModulusBits == 61

\* an INT64 value: the int of sign and size |q| * (2^61 - 1) + |n|, written by its
\* multiples of the hash modulus and what is left, q and n of one sign or 0
Int64V(q, i) == [k |-> "int", n |-> i, q |-> q, e |-> <<>>]
IntV(i) == Int64V(0, i)
StrV(i) == [k |-> "str", n |-> i, q |-> 0, e |-> <<>>]
ListV(es) == [k |-> "list", n |-> 0, q |-> 0, e |-> es]
TupleV(es) == [k |-> "tuple", n |-> 0, q |-> 0, e |-> es]

\* 1, 2, 8, 2^61 + 7, "a", [], [[]], ([],)
Values == {IntV(1), IntV(2), IntV(8), Int64V(1, 8), StrV(1), ListV(<<>>),
           ListV(<<ListV(<<>>)>>), TupleV(<<ListV(<<>>)>>)}

\* isinstance(x, (str, int, float, bool, tuple)), graph_rag.py line 83
IsScalarType(x) == x.k \in {"int", "str", "tuple"}

\* hash(x) succeeds: a list is unhashable, a tuple hashes its elements
RECURSIVE Hashable(_)
Hashable(x) ==
    CASE x.k = "list" -> FALSE
      [] x.k = "tuple" -> \A i \in 1..Len(x.e) : Hashable(x.e[i])
      [] OTHER -> TRUE

Range(s) == {s[i] : i \in 1..Len(s)}

\* `item not in result`: the row, a Python list, compared with each collected value
RowInResult(item, result) == \E i \in 1..Len(result) : result[i] = ListV(item)

\* the while loop of GraphRAG.query, graph_rag.py lines 76-80
RECURSIVE Flatten(_, _)
Flatten(rs, result) ==
    IF rs = <<>> THEN result
    ELSE LET item == Head(rs) IN
         Flatten(Tail(rs),
                 IF RowInResult(item, result) THEN result ELSE result \o item)

\* [x for i, x in enumerate(result) if x not in result[:i]], line 88
RECURSIVE DedupList(_, _)
DedupList(result, acc) ==
    IF result = <<>> THEN acc
    ELSE DedupList(Tail(result),
                   IF Head(result) \in Range(acc) THEN acc
                   ELSE Append(acc, Head(result)))

\* all the orders in which the set S can be listed
Orderings(S) ==
    {s \in [1..Cardinality(S) -> S] : \A i, j \in 1..Cardinality(S) : i # j => s[i] # s[j]}

\* CPython's set object (setobject.c), which list(set(result)) on line 84 builds
\* and then lists slot by slot.  A table is a function from 0..mask to the key in
\* the slot, EmptySlot where there is none.
EmptySlot == [k |-> "empty", n |-> 0, q |-> 0, e |-> <<>>]
MinSize == 8
LinearProbes == 9
PerturbShift == 5
LargeUsed == 50000
HashBits == 64
IntBits == 30

Pow2(n) == 2 ^ n

\* hash(x) of an int: x reduced modulo 2^61 - 1 with its sign kept, which drops
\* the multiples x.q of the modulus, and -2 where that gives -1
HashInt(x) == IF x.n = -1 THEN -2 ELSE x.n

\* perturb, the hash as an unsigned 64-bit number: 2^e + lo while the top bit
\* is too large to write out (e >= 0), lo alone once it is not (e = -1)
PerturbOf(hash) == IF hash < 0 THEN [e |-> HashBits, lo |-> hash] ELSE [e |-> -1, lo |-> hash]

\* perturb >>= PERTURB_SHIFT
ShiftPerturb(p) ==
    IF p.e < 0 THEN [e |-> -1, lo |-> p.lo \div Pow2(PerturbShift)]
    ELSE IF p.e < PerturbShift THEN [e |-> -1, lo |-> (Pow2(p.e) + p.lo) \div Pow2(PerturbShift)]
    ELSE IF p.e - PerturbShift > IntBits
         THEN [e |-> p.e - PerturbShift, lo |-> p.lo \div Pow2(PerturbShift)]
         ELSE [e |-> -1, lo |-> Pow2(p.e - PerturbShift) + p.lo \div Pow2(PerturbShift)]

\* the one element of a singleton
The(S) == CHOOSE r \in S : TRUE

\* the probe loop of set_add_entry and set_insert_clean: the first slot, in probe
\* order from slot i, that is unused or holds key
RECURSIVE FindSlot(_, _, _, _, _)
FindSlot(table, mask, key, i, perturb) ==
    LET probes == IF i + LinearProbes <= mask THEN LinearProbes ELSE 0
        hits == {j \in i..(i + probes) : table[j] = EmptySlot \/ table[j] = key}
    IN IF hits # {}
       THEN CHOOSE j \in hits : \A m \in hits : j <= m
       ELSE The({The({FindSlot(table, mask, key, next, p) :
                        next \in {(i * 5 + 1 + p.lo) % (mask + 1)}}) :
                   p \in {ShiftPerturb(perturb)}})

\* the key put into the table of a set, no resize
PutKey(so, key) ==
    LET hash == HashInt(key)
    IN The({IF so.table[j] = key THEN so
            ELSE [table |-> [so.table EXCEPT ![j] = key],
                  mask |-> so.mask, fill |-> so.fill + 1] :
              j \in {FindSlot(so.table, so.mask, key, hash % (so.mask + 1), PerturbOf(hash))}})

RECURSIVE NewSize(_, _)
NewSize(size, minused) == IF size <= minused THEN NewSize(size * 2, minused) ELSE size

EmptySet(size) == [table |-> [j \in 0..(size - 1) |-> EmptySlot], mask |-> size - 1, fill |-> 0]

\* set_table_resize: the keys of the old table, slot by slot, put into a new one
RECURSIVE CopyFrom(_, _, _)
CopyFrom(old, j, new) ==
    IF j > old.mask THEN new
    ELSE IF old.table[j] = EmptySlot THEN CopyFrom(old, j + 1, new)
    ELSE The({CopyFrom(old, j + 1, put) : put \in {PutKey(new, old.table[j])}})

\* so->used > 50000 ? so->used*2 : so->used*4, the room set_add_entry asks a
\* resize for; no key is ever removed, so used is fill
MinUsed(used) == IF used > LargeUsed THEN used * 2 ELSE used * 4

\* set_add_entry: put the key, and resize once the table is three fifths full
AddKey(so, key) ==
    The({IF put.fill = so.fill \/ put.fill * 5 < put.mask * 3 THEN put
         ELSE The({CopyFrom(put, 0, new) :
                     new \in {EmptySet(NewSize(MinSize, MinUsed(put.fill)))}}) :
           put \in {PutKey(so, key)}})

\* set(result): the keys added in list order
RECURSIVE SetOf(_, _)
SetOf(result, so) ==
    IF result = <<>> THEN so
    ELSE The({SetOf(Tail(result), next) : next \in {AddKey(so, Head(result))}})

\* list(so): the keys in slot order
ListSlots(so) ==
    LET used == {j \in 0..so.mask : so.table[j] # EmptySlot}
    IN [n \in 1..Cardinality(used) |->
          so.table[CHOOSE j \in used : Cardinality({m \in used : m < j}) = n - 1]]

\* list(set(result)), line 84: the listing follows the hash table.  An int hashes
\* to itself, so a list of ints has one listing; str hashes are salted per
\* process, so a set holding a str may come out in any order.
ListOfSet(result) ==
    IF \A x \in Range(result) : x.k = "int"
    THEN {ListSlots(so) : so \in {SetOf(result, empty) : empty \in {EmptySet(MinSize)}}}
    ELSE Orderings(Range(result))

Ok(v) == [ok |-> TRUE, val |-> v, err |-> ""]
Raised(e) == [ok |-> FALSE, val |-> <<>>, err |-> e]

\* GraphRAG.query after conn.execute returned: the set of values it may return
\* (the list stored under the question) or the exception it raises
QueryOutcomes(rs) ==
    LET result == Flatten(rs, <<>>) IN
    IF \A i \in 1..Len(result) : IsScalarType(result[i])
    THEN IF \A i \in 1..Len(result) : Hashable(result[i])
         THEN {Ok(s) : s \in ListOfSet(result)}
         ELSE {Raised("TypeError")}
    ELSE {Ok(DedupList(result, <<>>))}

----------------------------------------------------------------------------
(* Rendering of the schema text.  A piece of rendered text is a token      *)
(* [s, n]: the text s, with n the number a "[%s]" marker was formatted with. *)

Tok(s) == [s |-> s, n |-> 0]
ShapeTok(n) == [s |-> "[%s]", n |-> n]

NodeLabels == {"Movie", "Actor"}
RelLabels == {"ACTED_IN", "RELATED_TO"}

NodeProp(name, type, dimension, shape) ==
    [name |-> name, type |-> type, dimension |-> dimension, shape |-> shape]

\* title STRING, vector DOUBLE[1536], tags STRING[][], grid INT64[2][]
NodePropChoices ==
    {NodeProp("title", "STRING", 0, <<>>),
     NodeProp("vector", "DOUBLE", 1, <<1536>>),
     NodeProp("tags", "STRING", 2, <<>>),
     NodeProp("grid", "INT64", 2, <<2>>)}

RelPropChoices == {<<>>, <<[name |-> "relationship", type |-> "STRING"]>>}

\* list_type_flag that ignores the fixed sizes of "shape"
ListTypeFlagNoShape(prop) ==
    IF prop.dimension > 0 THEN [i \in 1..prop.dimension |-> Tok("[]")] ELSE <<>>

\* list_type_flag, graph_rag.py lines 37-44
ListTypeFlag(prop) ==
    IF prop.dimension > 0
    THEN IF prop.shape # <<>>
         THEN [i \in 1..Len(prop.shape) |-> ShapeTok(prop.shape[i])]
         ELSE [i \in 1..prop.dimension |-> Tok("[]")]
    ELSE <<>>

\* (property_name, property_type + list_type_flag), lines 36-46
RenderNodeProp(prop) ==
    [name |-> prop.name, type |-> <<Tok(prop.type)>> \o ListTypeFlag(prop)]

\* current_table_schema of a node table, lines 33-47
RenderNodeTable(t) ==
    [label |-> t.label,
     properties |-> [j \in 1..Len(t.props) |-> RenderNodeProp(t.props[j])]]

\* "(:%s)-[:%s]->(:%s)" % (src, name, dst), line 52
RenderRelationship(t) ==
    <<Tok("(:"), Tok(t.src), Tok(")-[:"), Tok(t.name), Tok("]->(:"), Tok(t.dst), Tok(")")>>

\* current_table_schema of a relationship table, lines 56-64
RenderRelTable(t) ==
    [label |-> t.name,
     properties |-> [j \in 1..Len(t.props) |->
                        [name |-> t.props[j].name, type |-> <<Tok(t.props[j].type)>>]]]

\* GraphRAG.get_schema: the three lines of the schema text, lines 66-71
get_schema(nt, rt) ==
    [node_properties |-> [i \in 1..Len(nt) |-> RenderNodeTable(nt[i])],
     rel_properties |-> [i \in 1..Len(rt) |-> RenderRelTable(rt[i])],
     relationships |-> [i \in 1..Len(rt) |-> RenderRelationship(rt[i])]]

----------------------------------------------------------------------------
(* SpecCollector: GraphRAG.query on every bounded row stream.              *)

RowSet == UNION {[1..n -> Values] : n \in 1..MaxRowLen}
RowStreams == UNION {[1..n -> RowSet] : n \in 0..MaxRows}

NoOutcome == [ok |-> FALSE, val |-> <<>>, err |-> "pending"]

InitSchemaIdle ==
    /\ nodeTables = <<>>
    /\ relTables = <<>>
    /\ schemaCalls = <<>>

\* vector_docs / context as VectorRAG.query returns it: None, or a list
NoneDocs == [none |-> TRUE, items |-> <<>>]
SomeDocs(items) == [none |-> FALSE, items |-> items]

\* context: what a synthesis prompt is rendered with
NoContext == [kind |-> "unset", docs |-> <<>>]

AllUp == [embedOk |-> TRUE, searchOk |-> TRUE, graphOk |-> TRUE, translateOk |-> TRUE,
          execOk |-> TRUE, rerankOk |-> TRUE, synthOk |-> TRUE]

\* the locals of a run before run() is entered
RunLocalsReset ==
    /\ vector_docs = SomeDocs(<<>>)
    /\ cypher = <<>>
    /\ graph_docs = <<>>
    /\ docs = <<>>
    /\ context = NoContext
    /\ failure = ""
    /\ executed = <<>>
    /\ calls = <<>>
    /\ printed = <<>>
    /\ schema = get_schema(<<>>, <<>>)
    /\ inRetrieve = FALSE

InitRunIdle ==
    /\ mode = "idle"
    /\ pc = "Idle"
    /\ question = ""
    /\ RunLocalsReset
    /\ env = AllUp
    /\ graphStore = {}
    /\ vectorStore = <<>>
    /\ runs = 0

InitCollector ==
    /\ rows \in RowStreams
    /\ outcome = NoOutcome
    /\ InitSchemaIdle
    /\ InitRunIdle

\* GraphRAG.query(question, cypher) on the stream `rows`
CollectorQuery ==
    /\ outcome = NoOutcome
    /\ outcome' \in QueryOutcomes(rows)
    /\ UNCHANGED <<rows, schemaVars, runVars>>

NextCollector == CollectorQuery

SpecCollector == InitCollector /\ [][NextCollector]_vars

\* every value of the row stream, row by row, left to right inside a row
RECURSIVE FlatStream(_)
FlatStream(rs) == IF rs = <<>> THEN <<>> ELSE Head(rs) \o FlatStream(Tail(rs))

NoDuplicates(s) == \A i, j \in 1..Len(s) : i # j => s[i] # s[j]

FirstIndex(s, v) == CHOOSE i \in 1..Len(s) : s[i] = v /\ \A j \in 1..(i - 1) : s[j] # v

Returned == outcome # NoOutcome /\ outcome.ok

\* C1: the list GraphRAG.query returns holds every value that occurs in some row
\* exactly once, and no value that occurs in no row.
C1_EveryValueExactlyOnce ==
    Returned => /\ Range(outcome.val) = Range(FlatStream(rows))
                /\ NoDuplicates(outcome.val)

\* C2: the elements of the returned list are in the order of their first
\* occurrence in the flattened row stream, for scalar and for composite values.
C2_FirstOccurrenceOrder ==
    Returned =>
        \A i, j \in 1..Len(outcome.val) :
            (/\ i < j
             /\ outcome.val[i] \in Range(FlatStream(rows))
             /\ outcome.val[j] \in Range(FlatStream(rows)))
            => FirstIndex(FlatStream(rows), outcome.val[i])
                 < FirstIndex(FlatStream(rows), outcome.val[j])

\* a list, or a tuple that holds a list at some depth
RECURSIVE HasList(_)
HasList(x) == x.k = "list" \/ \E i \in 1..Len(x.e) : HasList(x.e[i])

\* C9: on a row stream whose values include nested composites, GraphRAG.query
\* returns a list without structurally equal elements and never raises because
\* a value cannot be hashed.
C9_ToleratesUnhashable ==
    (outcome # NoOutcome /\ \E v \in Range(FlatStream(rows)) : HasList(v))
        => outcome.ok /\ NoDuplicates(outcome.val)

----------------------------------------------------------------------------
(* SpecSchema: GraphRAG.get_schema against the schema create_graph.py      *)
(* defines step by step.                                                   *)
(*                                                                         *)
(* A node property is what conn._get_node_property_names reports:          *)
(*   name, type (the base type), dimension (number of list levels) and     *)
(*   shape (the fixed sizes; the key "shape" is present iff shape # <<>>). *)
(* A relationship property is a row of CALL table_info: name and type.     *)
(* A piece of rendered text is a token [s, n]: the text s, with n the      *)
(* number a "[%s]" marker was formatted with.                              *)

InitCollectorIdle ==
    /\ rows = <<>>
    /\ outcome = NoOutcome

\* the empty database create_graph.py starts from
\* the statement get_schema hands to conn.execute for one relationship table,
\* line 58, as a token sequence
TableInfoQuery(table_name) == <<"CALL table_info", table_name, "RETURN *">>

\* the statements one get_schema call executes: one per relationship table, in
\* the order of rel_tables (lines 55-58)
TableInfoQueries(rt) == [i \in 1..Len(rt) |-> TableInfoQuery(rt[i].name)]

InitSchema ==
    /\ nodeTables = <<>>
    /\ relTables = <<>>
    /\ schemaCalls = <<>>
    /\ InitCollectorIdle
    /\ InitRunIdle

\* CREATE NODE TABLE label(prop, PRIMARY KEY(prop))
CreateNodeTable ==
    /\ Len(nodeTables) < MaxNodeTables
    /\ \E label \in NodeLabels, prop \in NodePropChoices :
          /\ \A i \in 1..Len(nodeTables) : nodeTables[i].label # label
          /\ prop.dimension = 0
          /\ nodeTables' = Append(nodeTables, [label |-> label, props |-> <<prop>>])
    /\ UNCHANGED <<relTables, schemaCalls, collectorVars, runVars>>

\* CREATE REL TABLE name(FROM src TO dst, props)
CreateRelTable ==
    /\ Len(relTables) < MaxRelTables
    /\ \E name \in RelLabels, i, j \in 1..Len(nodeTables), props \in RelPropChoices :
          /\ \A r \in 1..Len(relTables) : relTables[r].name # name
          /\ relTables' = Append(relTables,
                                 [name |-> name, src |-> nodeTables[i].label,
                                  dst |-> nodeTables[j].label, props |-> props])
    /\ UNCHANGED <<nodeTables, schemaCalls, collectorVars, runVars>>

\* ALTER TABLE label ADD prop
AlterTableAdd ==
    /\ \E i \in 1..Len(nodeTables), prop \in NodePropChoices :
          /\ Len(nodeTables[i].props) < MaxProps
          /\ \A j \in 1..Len(nodeTables[i].props) : nodeTables[i].props[j].name # prop.name
          /\ nodeTables' = [nodeTables EXCEPT ![i].props = Append(@, prop)]
    /\ UNCHANGED <<relTables, schemaCalls, collectorVars, runVars>>

\* a call of GraphRAG.get_schema(); the schema it read is kept beside its text
SchemaGetSchema ==
    /\ Len(schemaCalls) < MaxSchemaCalls
    /\ schemaCalls' = Append(schemaCalls,
                             [nodes |-> nodeTables, rels |-> relTables,
                              text |-> get_schema(nodeTables, relTables)])
    /\ executed' = executed \o TableInfoQueries(relTables)
    /\ UNCHANGED <<nodeTables, relTables, collectorVars, mode, pc, question, vector_docs,
                   cypher, graph_docs, docs, context, failure, graphStore, vectorStore,
                   calls, printed, schema, inRetrieve, env, runs>>

NextSchema == CreateNodeTable \/ CreateRelTable \/ AlterTableAdd \/ SchemaGetSchema

SpecSchema == InitSchema /\ [][NextSchema]_vars

IsMarker(tok) == tok.s = "[]" \/ (tok.s = "[%s]" /\ tok.n > 0)

\* the text lists node table t, with each property and its list markers
ListsNodeTable(r, t) ==
    /\ r.label = t.label
    /\ Len(r.properties) = Len(t.props)
    /\ \A j \in 1..Len(t.props) :
          LET p == t.props[j]
              q == r.properties[j]
          IN /\ q.name = p.name
             /\ Len(q.type) >= 1
             /\ q.type[1] = Tok(p.type)
             /\ \A m \in 2..Len(q.type) : IsMarker(q.type[m])
             /\ (p.dimension > 0) <=> (Len(q.type) >= 2)
             /\ (p.dimension > 0 /\ p.shape = <<>>) => Len(q.type) = 1 + p.dimension
             /\ \A m \in 1..Len(p.shape) : q.type[1 + m] = ShapeTok(p.shape[m])

ListsRelTable(text, i, t) ==
    /\ text.rel_properties[i].label = t.name
    /\ Len(text.rel_properties[i].properties) = Len(t.props)
    /\ \A j \in 1..Len(t.props) :
          /\ text.rel_properties[i].properties[j].name = t.props[j].name
          /\ text.rel_properties[i].properties[j].type = <<Tok(t.props[j].type)>>
    /\ Len(text.relationships[i]) = 7
    /\ text.relationships[i][1].s = "(:"
    /\ text.relationships[i][2].s = t.src
    /\ text.relationships[i][3].s = ")-[:"
    /\ text.relationships[i][4].s = t.name
    /\ text.relationships[i][5].s = "]->(:"
    /\ text.relationships[i][6].s = t.dst
    /\ text.relationships[i][7].s = ")"

ListsEverything(c) ==
    /\ Len(c.text.node_properties) = Len(c.nodes)
    /\ \A i \in 1..Len(c.nodes) : ListsNodeTable(c.text.node_properties[i], c.nodes[i])
    /\ Len(c.text.rel_properties) = Len(c.rels)
    /\ Len(c.text.relationships) = Len(c.rels)
    /\ \A i \in 1..Len(c.rels) : ListsRelTable(c.text, i, c.rels[i])

SameSchema(c, d) == c.nodes = d.nodes /\ c.rels = d.rels

\* C10: two get_schema calls against the same schema return identical text, and
\* the text lists, in catalog order, every node table with its properties
\* (list-typed ones carrying [] or [N] markers), every relationship table's
\* properties and every relationship as (source)-[rel]->(target).
C10_SchemaDeterministic ==
    /\ \A i, j \in 1..Len(schemaCalls) :
          SameSchema(schemaCalls[i], schemaCalls[j])
              => schemaCalls[i].text = schemaCalls[j].text
    /\ \A i \in 1..Len(schemaCalls) : ListsEverything(schemaCalls[i])

\* two calls read the same schema, which has a list-typed property with a fixed
\* size, one without, and a relationship table
C10_Witness ==
    /\ Len(schemaCalls) >= 2
    /\ SameSchema(schemaCalls[1], schemaCalls[2])
    /\ schemaCalls[1].rels # <<>>
    /\ \E i \in 1..Len(schemaCalls[1].nodes) :
          \E j \in 1..Len(schemaCalls[1].nodes[i].props) :
              /\ schemaCalls[1].nodes[i].props[j].dimension > 0
              /\ schemaCalls[1].nodes[i].props[j].shape # <<>>
    /\ \E i \in 1..Len(schemaCalls[1].nodes) :
          \E j \in 1..Len(schemaCalls[1].nodes[i].props) :
              /\ schemaCalls[1].nodes[i].props[j].dimension > 0
              /\ schemaCalls[1].nodes[i].props[j].shape = <<>>

----------------------------------------------------------------------------
(* Spec: HybridRAG.run, GraphRAG.run and VectorRAG.run, one step per call   *)
(* the run makes.  `env` says which backends answer during the run; the    *)
(* Translator's output and the reranker's ranking are chosen freely.       *)

Limit == 10
TopN == 20

Questions == {"q1", "q2"}

\* query strings the Translator may return, as token sequences; Fence stands for
\* the code-fence marker, three backticks
Fence == "<fence>"
QRead == <<"MATCH", "RETURN">>
QWrite == <<"MATCH", "DETACH DELETE">>
QFenced == <<Fence, "MATCH", "RETURN", Fence>>
QEmpty == <<>>
QProse == <<"Sorry">>
Queries == {QRead, QWrite, QFenced, QEmpty, QProse}

\* the graph and the chunk table the setup scripts leave behind
InitialGraphStore == {1, 2}
Chunk(t) == [text |-> t, distance |-> 0]
InitialVectorStores == {<<>>, <<Chunk("c1")>>, <<Chunk("c1"), Chunk("c2")>>}

DemoNodeTables ==
    <<[label |-> "Actor", props |-> <<NodeProp("title", "STRING", 0, <<>>)>>],
      [label |-> "Movie", props |-> <<NodeProp("title", "STRING", 0, <<>>),
                                      NodeProp("vector", "DOUBLE", 1, <<1536>>)>>]>>
DemoRelTables ==
    <<[name |-> "ACTED_IN", src |-> "Actor", dst |-> "Movie", props |-> <<>>]>>

Envs == [embedOk : BOOLEAN, searchOk : BOOLEAN, graphOk : BOOLEAN, translateOk : BOOLEAN,
         execOk : BOOLEAN, rerankOk : BOOLEAN, synthOk : BOOLEAN]

Min(a, b) == IF a < b THEN a ELSE b
Last(s) == s[Len(s)]

\* the rows a read query returns: one row per fact, largest first
RECURSIVE RowsOf(_)
RowsOf(store) ==
    IF store = {} THEN <<>>
    ELSE LET m == CHOOSE x \in store : \A y \in store : y <= x
         IN <<<<IntV(m)>>>> \o RowsOf(store \ {m})

\* self.conn.execute(cypher) on the read-write connection GraphRAG opens: what the
\* store answers and what it holds afterwards
Execute(q, store) ==
    CASE q = QRead -> [ok |-> TRUE, rows |-> RowsOf(store), store |-> store]
      [] q = QWrite -> [ok |-> TRUE, rows |-> <<>>, store |-> {}]
      [] \E i \in 1..Len(relTables) : q = TableInfoQuery(relTables[i].name) ->
            LET i == CHOOSE j \in 1..Len(relTables) : q = TableInfoQuery(relTables[j].name)
            IN [ok |-> TRUE, rows |-> relTables[i].props, store |-> store]
      [] OTHER -> [ok |-> FALSE, rows |-> <<>>, store |-> store]

\* self.table.search(query_vector).metric("cosine").select(["text"]).limit(limit).to_list()
Search(store, limit) == SubSeq(store, 1, Min(limit, Len(store)))

\* str(doc) of the dict GraphRAG.query returns, and of a chunk's text
DictDoc(q, vals) == [kind |-> "dict", q |-> q, vals |-> vals, text |-> ""]
TextDoc(t) == [kind |-> "text", q |-> "", vals |-> <<>>, text |-> t]

\* co.rerank(..., top_n=20): the documents in some order of relevance, cut to top_n
RerankResults(ds, top_n) ==
    {SubSeq(o, 1, Min(top_n, Len(o))) : o \in Orderings(Range(ds))}

Fail(reason) ==
    /\ pc' = "Failed"
    /\ failure' = reason

Init ==
    /\ InitCollectorIdle
    /\ nodeTables = DemoNodeTables
    /\ relTables \in {<<>>, DemoRelTables}
    /\ schemaCalls = <<>>
    /\ mode = "idle"
    /\ pc = "Idle"
    /\ question = ""
    /\ RunLocalsReset
    /\ env = AllUp
    /\ graphStore = InitialGraphStore
    /\ vectorStore \in InitialVectorStores
    /\ runs = 0

\* a caller enters HybridRAG.run, GraphRAG.run or VectorRAG.run
StartRun ==
    /\ pc = "Idle"
    /\ runs < MaxRuns
    /\ \E m \in {"hybrid", "graph", "vector"}, q \in Questions, e \in Envs :
          /\ mode' = m
          /\ question' = q
          /\ env' = e
          /\ pc' = IF m = "graph" THEN "schema" ELSE "embed"
    /\ runs' = runs + 1
    /\ UNCHANGED <<collectorVars, schemaVars, vector_docs, cypher, graph_docs, docs, context,
                   failure, graphStore, vectorStore, executed, calls, printed, schema,
                   inRetrieve>>

\* VectorRAG.embed, vector_rag.py lines 24-27
Embed ==
    /\ pc = "embed"
    /\ calls' = Append(calls, "embed")
    /\ IF env.embedOk
       THEN pc' = "vquery" /\ UNCHANGED failure
       ELSE Fail("EmbeddingError")
    /\ UNCHANGED <<collectorVars, schemaVars, mode, question, vector_docs, cypher, graph_docs,
                   docs, context, graphStore, vectorStore, executed, printed, schema,
                   inRetrieve, env, runs>>

\* VectorRAG.query, vector_rag.py lines 18-22; in VectorRAG.run its value is the context
VectorQuery ==
    /\ pc = "vquery"
    /\ calls' = Append(calls, "search")
    /\ IF env.searchOk
       THEN LET search_result == Search(vectorStore, Limit)
                returned == IF search_result # <<>> THEN SomeDocs(search_result) ELSE NoneDocs
            IN /\ vector_docs' = returned
               /\ IF mode = "hybrid"
                  THEN pc' = "project" /\ UNCHANGED context
                  ELSE /\ pc' = "synth"
                       /\ context' = [kind |-> IF returned.none THEN "None" ELSE "chunks",
                                      docs |-> returned.items]
               /\ UNCHANGED failure
       ELSE Fail("StoreUnavailable") /\ UNCHANGED <<vector_docs, context>>
    /\ UNCHANGED <<collectorVars, schemaVars, mode, question, cypher, graph_docs, docs,
                   graphStore, vectorStore, executed, printed, schema, inRetrieve, env, runs>>

\* a run that goes from the vector chunks straight to fusion, with the graph
\* branch left out
ProjectThenRerank ==
    /\ pc = "project"
    /\ IF vector_docs.none
       THEN Fail("TypeError") /\ UNCHANGED vector_docs
       ELSE /\ vector_docs' = SomeDocs([i \in 1..Len(vector_docs.items) |->
                                          vector_docs.items[i].text])
            /\ pc' = "rerank"
            /\ UNCHANGED failure
    /\ UNCHANGED <<collectorVars, schemaVars, mode, question, cypher, graph_docs, docs,
                   context, graphStore, vectorStore, executed, calls, printed, schema,
                   inRetrieve, env, runs>>

\* vector_docs = [doc["text"] for doc in vector_docs], hybrid_rag.py line 36
Project ==
    /\ pc = "project"
    /\ IF vector_docs.none
       THEN Fail("TypeError") /\ UNCHANGED vector_docs
       ELSE /\ vector_docs' = SomeDocs([i \in 1..Len(vector_docs.items) |->
                                          vector_docs.items[i].text])
            /\ pc' = "translate_schema"
            /\ UNCHANGED failure
    /\ UNCHANGED <<collectorVars, schemaVars, mode, question, cypher, graph_docs, docs,
                   context, graphStore, vectorStore, executed, calls, printed, schema,
                   inRetrieve, env, runs>>

\* schema = self.get_schema() inside generate_cypher, graph_rag.py line 104.
\* get_schema reads the table names from the connection (lines 31, 51) and then
\* executes one table_info statement per relationship table (line 58); the first
\* call that raises ends it.
GetSchema ==
    /\ pc \in {"schema", "translate_schema"}
    /\ calls' = Append(calls, "schema")
    /\ IF ~env.graphOk
       THEN Fail("StoreUnavailable") /\ UNCHANGED <<schema, executed>>
       ELSE IF relTables # <<>> /\ ~env.execOk
       THEN /\ executed' = Append(executed, TableInfoQuery(relTables[1].name))
            /\ Fail("StoreUnavailable")
            /\ UNCHANGED schema
       ELSE /\ executed' = executed \o TableInfoQueries(relTables)
            /\ schema' = get_schema(nodeTables, relTables)
            /\ pc' = "translate"
            /\ UNCHANGED failure
    /\ UNCHANGED <<collectorVars, schemaVars, mode, question, vector_docs, cypher, graph_docs,
                   docs, context, graphStore, vectorStore, printed,
                   inRetrieve, env, runs>>

\* the generation call of generate_cypher, graph_rag.py lines 92-120; GraphRAG.run
\* prints what its own call returned (line 147)
Translate ==
    /\ pc = "translate"
    /\ calls' = Append(calls, "translate")
    /\ IF env.translateOk
       THEN /\ \E c \in Queries :
                 /\ cypher' = c
                 /\ printed' = IF mode = "graph" /\ ~inRetrieve
                                THEN Append(printed, c) ELSE printed
            /\ pc' = "gquery"
            /\ UNCHANGED failure
       ELSE Fail("GenerationError") /\ UNCHANGED <<cypher, printed>>
    /\ UNCHANGED <<collectorVars, schemaVars, mode, question, vector_docs, graph_docs,
                   docs, context, graphStore, vectorStore, executed, schema,
                   inRetrieve, env, runs>>

\* GraphRAG.query(question, cypher), graph_rag.py lines 73-90.  GraphRAG.run passes
\* its result to retrieve, whose body translates and queries again (lines 132-133)
\* before its own generation call.
GraphQuery ==
    /\ pc = "gquery"
    /\ calls' = Append(calls, "execute")
    /\ executed' = Append(executed, cypher)
    /\ IF ~env.execOk
       THEN Fail("StoreUnavailable") /\ UNCHANGED <<graphStore, graph_docs, context, inRetrieve>>
       ELSE LET response == Execute(cypher, graphStore) IN
            IF ~response.ok
            THEN Fail("QuerySyntaxError")
                 /\ UNCHANGED <<graphStore, graph_docs, context, inRetrieve>>
            ELSE /\ graphStore' = response.store
                 /\ \E o \in QueryOutcomes(response.rows) :
                      IF o.ok
                      THEN /\ graph_docs' = o.val
                           /\ UNCHANGED failure
                           /\ CASE mode = "hybrid" ->
                                     pc' = "rerank" /\ UNCHANGED <<context, inRetrieve>>
                                [] mode = "graph" /\ ~inRetrieve ->
                                     /\ pc' = "schema"
                                     /\ inRetrieve' = TRUE
                                     /\ UNCHANGED context
                                [] OTHER ->
                                     /\ pc' = "synth"
                                     /\ context' = [kind |-> "dict",
                                                    docs |-> <<DictDoc(question, o.val)>>]
                                     /\ UNCHANGED inRetrieve
                      ELSE Fail(o.err) /\ UNCHANGED <<graph_docs, context, inRetrieve>>
    /\ UNCHANGED <<collectorVars, schemaVars, mode, question, vector_docs, cypher, docs,
                   vectorStore, printed, schema, env, runs>>

\* docs = [str(doc) for doc in [graph_docs] + vector_docs] and co.rerank,
\* hybrid_rag.py lines 41-51
Rerank ==
    /\ pc = "rerank"
    /\ LET ds == <<DictDoc(question, graph_docs)>>
                  \o [i \in 1..Len(vector_docs.items) |-> TextDoc(vector_docs.items[i])]
       IN /\ docs' = ds
          /\ calls' = Append(calls, "rerank")
          /\ IF env.rerankOk
             THEN /\ \E r \in RerankResults(ds, TopN) :
                       context' = [kind |-> "rerank", docs |-> r]
                  /\ pc' = "synth"
                  /\ UNCHANGED failure
             ELSE Fail("RerankUnavailable") /\ UNCHANGED context
    /\ UNCHANGED <<collectorVars, schemaVars, mode, question, vector_docs, cypher, graph_docs,
                   graphStore, vectorStore, executed, printed, schema, inRetrieve, env, runs>>

\* the generation call of hybrid_rag / retrieve on (question, context):
\* hybrid_rag.py line 52, graph_rag.py lines 134-149, vector_rag.py line 59
Synthesize ==
    /\ pc = "synth"
    /\ calls' = Append(calls, "synthesize")
    /\ IF env.synthOk
       THEN pc' = "Answered" /\ UNCHANGED failure
       ELSE Fail("GenerationError")
    /\ UNCHANGED <<collectorVars, schemaVars, mode, question, vector_docs, cypher, graph_docs,
                   docs, context, graphStore, vectorStore, executed, printed, schema,
                   inRetrieve, env, runs>>

\* run() returns its answer or raises to the caller; its locals are gone
Return ==
    /\ pc \in {"Answered", "Failed"}
    /\ pc' = "Idle"
    /\ mode' = "idle"
    /\ question' = ""
    /\ env' = AllUp
    /\ vector_docs' = SomeDocs(<<>>)
    /\ cypher' = <<>>
    /\ graph_docs' = <<>>
    /\ docs' = <<>>
    /\ context' = NoContext
    /\ failure' = ""
    /\ executed' = <<>>
    /\ calls' = <<>>
    /\ printed' = <<>>
    /\ schema' = get_schema(<<>>, <<>>)
    /\ inRetrieve' = FALSE
    /\ UNCHANGED <<collectorVars, schemaVars, graphStore, vectorStore, runs>>

Next ==
    \/ StartRun
    \/ Embed
    \/ VectorQuery
    \/ Project
    \/ GetSchema
    \/ Translate
    \/ GraphQuery
    \/ Rerank
    \/ Synthesize
    \/ Return

Spec == Init /\ [][Next]_vars

----------------------------------------------------------------------------
(* Claims about the runs. *)

Called(c) == c \in Range(calls)

HybridEnded == mode = "hybrid" /\ pc \in {"Answered", "Failed"}

\* the vector branch returned at least one chunk
VectorSucceeded ==
    /\ Called("search")
    /\ env.embedOk /\ env.searchOk
    /\ ~vector_docs.none
    /\ Len(vector_docs.items) >= 1

\* the schema fetch failed, or the store rejected or could not run the query
GraphBranchFailed ==
    \/ Called("schema") /\ (~env.graphOk \/ (relTables # <<>> /\ ~env.execOk))
    \/ Called("execute") /\ (~env.execOk \/ ~Execute(cypher, graphStore).ok)

\* C3: a hybrid run whose graph branch fails while the vector branch returned at
\* least one chunk still ends in Answered, after fusion and the synthesis call.
C3_GraphFailureTolerated ==
    (HybridEnded /\ VectorSucceeded /\ GraphBranchFailed /\ env.rerankOk /\ env.synthOk)
        => pc = "Answered" /\ Called("rerank") /\ Called("synthesize")

\* C4: a hybrid run in which both the vector branch and the graph branch fail
\* ends in the failure RetrievalUnavailable, with no answer and no synthesis call.
C4_TotalFailureReported ==
    (/\ HybridEnded
     /\ ~env.embedOk \/ ~env.searchOk
     /\ ~env.graphOk \/ ~env.translateOk \/ ~env.execOk)
        => pc = "Failed" /\ failure = "RetrievalUnavailable" /\ ~Called("synthesize")

\* C5: when the rerank call fails after both branches succeeded, the run does not
\* fail: the context is the graph candidate followed by the vector chunks in
\* their similarity order, cut to topN.
C5_RerankFallback ==
    (mode = "hybrid" /\ Called("rerank") /\ ~env.rerankOk)
        => /\ failure # "RerankUnavailable"
           /\ context = [kind |-> "rerank", docs |-> SubSeq(docs, 1, Min(TopN, Len(docs)))]

\* C6: when the similarity search returns zero results, VectorRAG.query yields an
\* empty sequence and a hybrid run goes on past it instead of failing.
C6_EmptySearchTolerated ==
    (Called("search") /\ env.searchOk /\ Search(vectorStore, Limit) = <<>>)
        => /\ vector_docs = SomeDocs(<<>>)
           /\ ~(mode = "hybrid" /\ pc = "Failed" /\ Last(calls) = "search")

\* C7: no step of a run changes the contents of the graph store or of the vector
\* store, whatever query string the Translator returned.
C7_StoresUnchanged ==
    [][graphStore' = graphStore /\ vectorStore' = vectorStore]_vars

\* C8: every query string handed to the graph store is non-empty and holds no
\* code-fence marker.
C8_ExecutedQueriesSanitized ==
    \A i \in 1..Len(executed) : executed[i] # <<>> /\ Fence \notin Range(executed[i])

\* call a was made, and made before call b
Before(a, b) == \E i, j \in 1..Len(calls) : i < j /\ calls[i] = a /\ calls[j] = b

\* some step of the run in progress can be taken
StepEnabled ==
    ENABLED (Embed \/ VectorQuery \/ Project \/ GetSchema \/ Translate
             \/ GraphQuery \/ Rerank \/ Synthesize)

\* C11: in a hybrid run the schema is read before the translation call, the
\* translation call precedes the execution of the graph query, the rerank call
\* follows both the vector search and the graph execution, the synthesis call
\* follows the rerank call, no call is made twice, and the run can stop only in
\* Answered or Failed.
C11_HybridStepOrder ==
    mode = "hybrid" =>
        /\ Called("translate") => Before("schema", "translate")
        /\ Called("execute") => Before("translate", "execute")
        /\ Called("rerank") => Before("search", "rerank") /\ Before("execute", "rerank")
        /\ Called("synthesize") => Before("rerank", "synthesize")
        /\ \A i, j \in 1..Len(calls) : i # j => calls[i] # calls[j]
        /\ pc \in {"Answered", "Failed"} \/ StepEnabled

\* a hybrid run went through every step and ended in Answered
C11_Witness ==
    /\ mode = "hybrid"
    /\ pc = "Answered"
    /\ calls = <<"embed", "search", "schema", "translate", "execute", "rerank", "synthesize">>

\* how many times call c was made in the run
CountCalls(c) == Cardinality({i \in 1..Len(calls) : calls[i] = c})

\* the query strings GraphRAG.query handed to the store: what was executed apart
\* from the table_info statements of get_schema
IsTableInfo(q) == Len(q) = 3 /\ q[1] = "CALL table_info"
TranslatedQueries == SelectSeq(executed, LAMBDA q : ~IsTableInfo(q))

\* C12: when a graph-only run reaches its synthesis call, the Translator was
\* invoked exactly once and the store executed exactly one translated query, the
\* one run() printed, so the context in the prompt is that query's result.
C12_SingleTranslation ==
    (mode = "graph" /\ Called("synthesize"))
        => /\ CountCalls("translate") = 1
           /\ Len(TranslatedQueries) = 1
           /\ TranslatedQueries = printed

====
